---- MODULE Spec2Model ----
(***************************************************************************)
(* A model of the terminal stopwatch of src/main.rs: the Timers state      *)
(* (exit, running, timer), the loop of Timers::run (draw, then             *)
(* handle_events) and main's acquisition and release of the terminal.      *)
(*                                                                         *)
(* Not modelled: the theme (it is copied into the widget state and never   *)
(* read by the control flow), the glyph rendering, and the panic of        *)
(* Duration's += on overflow of its u64 seconds, which no run reaches.     *)
(***************************************************************************)
EXTENDS Integers, Sequences, FiniteSets, TLC

\* Bounds of the model.
MaxIter == 4       \* iterations of the loop of Timers::run
MaxQueue == 2      \* terminal events waiting to be read

----------------------------------------------------------------------------
\* std::time::Duration: whole seconds and the nanoseconds below one second.

Duration(s, n) == [secs |-> s, nanos |-> n]

\* Duration::new(0, 0), also Duration::default()
DurationZero == Duration(0, 0)

\* Duration::from_secs_f64(1.0 / 60.0): 16 666 666.67 ns, rounded to nearest
frame_rate == Duration(0, 16666667)

\* Duration += Duration: add the fields, carry one second out of the nanoseconds
DurationAdd(a, b) ==
    LET n == a.nanos + b.nanos
    IN  IF n >= 1000000000
        THEN Duration(a.secs + b.secs + 1, n - 1000000000)
        ELSE Duration(a.secs + b.secs, n)

\* Duration::as_secs
as_secs(d) == d.secs

\* Duration::subsec_millis: the nanoseconds below one second, in whole milliseconds
subsec_millis(d) == d.nanos \div 1000000

----------------------------------------------------------------------------
\* The text of the timer in the widget's render: four numbers formatted with
\* {:02}, {:02}, {:02} and {:03} and joined by ":", ":" and ".".  A text is a
\* sequence of one-character strings.

DigitChar == << "0", "1", "2", "3", "4", "5", "6", "7", "8", "9" >>

\* the decimal digits of n, most significant first
RECURSIVE Digits(_)
Digits(n) ==
    IF n < 10
    THEN << DigitChar[n + 1] >>
    ELSE Digits(n \div 10) \o << DigitChar[(n % 10) + 1] >>

\* format!("{n:0w}"): the digits of n, zero-padded on the left to at least w characters
PadZero(n, w) ==
    LET d == Digits(n)
    IN  IF Len(d) >= w THEN d ELSE [i \in 1..(w - Len(d)) |-> "0"] \o d

\* SWAPPED: the minutes taken as all the whole minutes, without % 60
TimerText_TotalMinutes(d) ==
    PadZero((as_secs(d) \div 60) \div 60, 2) \o << ":" >>
        \o PadZero(as_secs(d) \div 60, 2) \o << ":" >>
        \o PadZero(as_secs(d) % 60, 2) \o << "." >>
        \o PadZero(subsec_millis(d), 3)

\* hours_string : minutes_string : seconds_string . milliseconds_string
TimerText(d) ==
    LET hours        == (as_secs(d) \div 60) \div 60
        minutes      == (as_secs(d) \div 60) % 60
        seconds      == as_secs(d) % 60
        milliseconds == subsec_millis(d)
    IN  PadZero(hours, 2) \o << ":" >>
            \o PadZero(minutes, 2) \o << ":" >>
            \o PadZero(seconds, 2) \o << "." >>
            \o PadZero(milliseconds, 3)

----------------------------------------------------------------------------
\* crossterm::event::Event, as far as handle_events tells events apart.

KeyCodes == {"Esc", "Space", "r", "a"}     \* KeyCode::Esc, Char(' '), Char('r'), another key
KeyKinds == {"Press", "Release", "Repeat"} \* KeyEventKind
KeyMods  == {"NONE", "CONTROL"}            \* KeyModifiers: empty, or some modifier held

Key(kind, code, mods) == [type |-> "Key", kind |-> kind, code |-> code, mods |-> mods]

\* an event that is no key event (Event::Resize, Event::Mouse, ...)
Resize == [type |-> "Resize", kind |-> "-", code |-> "-", mods |-> "-"]

\* no event was read
NoEvent == [type |-> "None", kind |-> "-", code |-> "-", mods |-> "-"]

Event == {Key(k, c, m) : k \in KeyKinds, c \in KeyCodes, m \in KeyMods} \cup {Resize}

EscPress   == Key("Press", "Esc", "NONE")
SpacePress == Key("Press", "Space", "NONE")
RPress     == Key("Press", "r", "NONE")

\* The events the terminal delivers in the runs explored: the three mapped
\* presses, an unmapped key, a mapped key with a modifier, a release, a non-key.
InputEvents ==
    { EscPress, SpacePress, RPress,
      Key("Press", "a", "NONE"),
      Key("Press", "Esc", "CONTROL"),
      Key("Release", "Space", "NONE"),
      Resize }

----------------------------------------------------------------------------
\* The fields of Timers that the loop reads and writes, as a record.

\* SWAPPED: a stopwatch created running
TimersDefault_Running == [exit |-> FALSE, running |-> TRUE, timer |-> DurationZero]

TimersDefault == [exit |-> FALSE, running |-> FALSE, timer |-> DurationZero]

\* SWAPPED: the match of handle_events compared ignoring the modifiers
MatchEvent_IgnoreMods(s, e) ==
    IF e.type = "Key" /\ e.kind = "Press"
    THEN CASE e.code = "Esc"   -> [s EXCEPT !.exit = TRUE]
           [] e.code = "Space" -> [s EXCEPT !.running = ~s.running]
           [] e.code = "r"     -> [s EXCEPT !.timer = DurationZero]
           [] OTHER            -> s
    ELSE s

\* SWAPPED: starting or pausing also clears the timer
MatchEvent_ToggleResets(s, e) ==
    IF e.type = "Key" /\ e.kind = "Press"
    THEN CASE e.code = "Esc"   /\ e.mods = "NONE" -> [s EXCEPT !.exit = TRUE]
           [] e.code = "Space" /\ e.mods = "NONE" ->
                    [s EXCEPT !.running = ~s.running, !.timer = DurationZero]
           [] e.code = "r"     /\ e.mods = "NONE" -> [s EXCEPT !.timer = DurationZero]
           [] OTHER                               -> s
    ELSE s

\* SWAPPED: the guard on key_event.kind left out
MatchEvent_AnyKind(s, e) ==
    IF e.type = "Key"
    THEN CASE e.code = "Esc"   /\ e.mods = "NONE" -> [s EXCEPT !.exit = TRUE]
           [] e.code = "Space" /\ e.mods = "NONE" -> [s EXCEPT !.running = ~s.running]
           [] e.code = "r"     /\ e.mods = "NONE" -> [s EXCEPT !.timer = DurationZero]
           [] OTHER                               -> s
    ELSE s

\* SWAPPED: a reset that also stops the stopwatch
MatchEvent_ResetStops(s, e) ==
    IF e.type = "Key" /\ e.kind = "Press"
    THEN CASE e.code = "Esc"   /\ e.mods = "NONE" -> [s EXCEPT !.exit = TRUE]
           [] e.code = "Space" /\ e.mods = "NONE" -> [s EXCEPT !.running = ~s.running]
           [] e.code = "r"     /\ e.mods = "NONE" ->
                    [s EXCEPT !.timer = DurationZero, !.running = FALSE]
           [] OTHER                               -> s
    ELSE s

\* SWAPPED: Space starts the stopwatch instead of flipping it
MatchEvent_SpaceStarts(s, e) ==
    IF e.type = "Key" /\ e.kind = "Press"
    THEN CASE e.code = "Esc"   /\ e.mods = "NONE" -> [s EXCEPT !.exit = TRUE]
           [] e.code = "Space" /\ e.mods = "NONE" -> [s EXCEPT !.running = TRUE]
           [] e.code = "r"     /\ e.mods = "NONE" -> [s EXCEPT !.timer = DurationZero]
           [] OTHER                               -> s
    ELSE s

\* the match of handle_events on the event read
MatchEvent(s, e) ==
    IF e.type = "Key" /\ e.kind = "Press"
    THEN CASE e.code = "Esc"   /\ e.mods = "NONE" -> [s EXCEPT !.exit = TRUE]
           [] e.code = "Space" /\ e.mods = "NONE" -> [s EXCEPT !.running = ~s.running]
           [] e.code = "r"     /\ e.mods = "NONE" -> [s EXCEPT !.timer = DurationZero]
           [] OTHER                               -> s
    ELSE s

\* SWAPPED: the test of running negated
Advance_Inverted(s) ==
    IF ~s.running THEN [s EXCEPT !.timer = DurationAdd(s.timer, frame_rate)] ELSE s

\* if self.running { self.timer += frame_rate; }
Advance(s) ==
    IF s.running THEN [s EXCEPT !.timer = DurationAdd(s.timer, frame_rate)] ELSE s

\* SWAPPED: the timer advanced before the event is matched
AfterEvent_AdvanceFirst(s, e) == MatchEvent(Advance(s), e)

\* handle_events after a poll that returned Ok(true) and a read that returned e
AfterEvent(s, e) == Advance(MatchEvent(s, e))

\* SWAPPED: the advance placed inside the branch of a poll that returned Ok(true)
AfterTimeout_Skip(s) == s

\* handle_events after a poll that returned Ok(false)
AfterTimeout(s) == Advance(s)

----------------------------------------------------------------------------
VARIABLES
    pc,             \* where main is: "start", "loop", "draw", "events", "restore", "done"
    exit,           \* Timers.exit
    running,        \* Timers.running
    timer,          \* Timers.timer
    queue,          \* the terminal's events not yet read, oldest first
    acquired,       \* tui::init returned Ok
    restoreCalls,   \* calls of tui::restore
    draws,          \* calls of terminal.draw
    polls,          \* calls of event::poll
    timers_result,  \* what Timers::run returned, "none" while it runs
    status,         \* what main returned, "none" while it runs
    pre,            \* the fields when the latest handle_events began
    outcome,        \* how the latest handle_events went
    handled,        \* the event the latest handle_events read, or NoEvent
    accum,          \* ns added to timer in the current stretch of running iterations
    real,           \* ns that passed in the polls of that stretch
    shown,          \* the timer text of the latest frame drawn, << >> before the first
    preLen,         \* how many events waited when the latest handle_events began
    toggles,        \* unmodified Space presses handled so far
    ticks           \* iterations completed with running true since the latest reset

vars == << pc, exit, running, timer, queue, acquired, restoreCalls, draws, polls,
           timers_result, status, pre, outcome, handled, accum, real,
           shown, preLen, toggles, ticks >>

fields == [exit |-> exit, running |-> running, timer |-> timer]

Errors == {"Err_draw", "Err_poll", "Err_read"}

\* the time a poll takes when an event arrives while it waits (0 < t < frame_rate)
EarlyWait == 8000000

Init ==
    /\ pc = "start"
    /\ exit = TimersDefault.exit
    /\ running = TimersDefault.running
    /\ timer = TimersDefault.timer
    /\ queue = << >>
    /\ acquired = FALSE
    /\ restoreCalls = 0
    /\ draws = 0
    /\ polls = 0
    /\ timers_result = "none"
    /\ status = "none"
    /\ pre = TimersDefault
    /\ outcome = "none"
    /\ handled = NoEvent
    /\ accum = 0
    /\ real = 0
    /\ shown = << >>
    /\ preLen = 0
    /\ toggles = 0
    /\ ticks = 0

\* SWAPPED: main written as  timers.run(&mut terminal)?;  before the restore
ReturnFromRun_Question(res) ==
    /\ timers_result' = res
    /\ IF res = "Ok"
       THEN pc' = "restore" /\ status' = status
       ELSE pc' = "done" /\ status' = res

\* let timers_result = timers.run(&mut terminal);  main goes on to tui::restore
ReturnFromRun(res) ==
    /\ timers_result' = res
    /\ pc' = "restore"
    /\ status' = status

\* let mut terminal = tui::init()?;  let mut timers = Timers::default()...
tui_init ==
    /\ pc = "start"
    /\ \/ /\ acquired' = TRUE
          /\ pc' = "loop"
          /\ status' = status
       \/ /\ acquired' = FALSE
          /\ pc' = "done"
          /\ status' = "Err_init"
    /\ UNCHANGED << exit, running, timer, queue, restoreCalls, draws, polls,
                    timers_result, pre, outcome, handled, accum, real,
                    shown, preLen, toggles, ticks >>

\* SWAPPED: a loop that does not look at exit
run_while_Forever ==
    /\ pc = "loop"
    /\ draws < MaxIter
    /\ pc' = "draw"
    /\ UNCHANGED << timers_result, status >>
    /\ UNCHANGED << exit, running, timer, queue, acquired, restoreCalls, draws, polls,
                    pre, outcome, handled, accum, real, shown, preLen, toggles, ticks >>

\* while !self.exit { ... }  Ok(())
run_while ==
    /\ pc = "loop"
    /\ IF exit
       THEN ReturnFromRun("Ok")
       ELSE /\ draws < MaxIter
            /\ pc' = "draw"
            /\ UNCHANGED << timers_result, status >>
    /\ UNCHANGED << exit, running, timer, queue, acquired, restoreCalls, draws, polls,
                    pre, outcome, handled, accum, real, shown, preLen, toggles, ticks >>

\* SWAPPED: the timer text repainted only while the stopwatch runs
draw_OnlyWhenRunning ==
    /\ pc = "draw"
    /\ draws' = draws + 1
    /\ \/ /\ pc' = "events"
          /\ shown' = IF running \/ shown = << >> THEN TimerText(timer) ELSE shown
          /\ UNCHANGED << timers_result, status >>
       \/ /\ ReturnFromRun("Err_draw")
          /\ shown' = shown
    /\ UNCHANGED << exit, running, timer, queue, acquired, restoreCalls, polls,
                    pre, outcome, handled, accum, real, preLen, toggles, ticks >>

\* terminal.draw(|frame| self.render_frame(frame))?
draw ==
    /\ pc = "draw"
    /\ draws' = draws + 1
    /\ \/ /\ pc' = "events"
          /\ shown' = TimerText(timer)
          /\ UNCHANGED << timers_result, status >>
       \/ /\ ReturnFromRun("Err_draw")
          /\ shown' = shown
    /\ UNCHANGED << exit, running, timer, queue, acquired, restoreCalls, polls,
                    pre, outcome, handled, accum, real, preLen, toggles, ticks >>

\* the bookkeeping of elapsed against real time after an iteration that took
\* `waited` ns in its poll, read event e and left the fields at s
Stretch(s, e, waited) ==
    IF pre'.running /\ s.running /\ e # RPress
    THEN accum' = accum + frame_rate.nanos /\ real' = real + waited
    ELSE accum' = 0 /\ real' = 0

\* an iteration of handle_events whose poll and read succeed
Handled(s, e, how, waited) ==
    /\ exit' = s.exit
    /\ running' = s.running
    /\ timer' = s.timer
    /\ outcome' = how
    /\ handled' = e
    /\ Stretch(s, e, waited)
    /\ toggles' = IF e = SpacePress THEN toggles + 1 ELSE toggles
    /\ ticks' = (IF e = RPress THEN 0 ELSE ticks) + (IF s.running THEN 1 ELSE 0)
    /\ pc' = "loop"
    /\ UNCHANGED << timers_result, status >>

\* SWAPPED: the error dropped and the iteration finished as if the budget expired
Failed_Swallowed(res) ==
    /\ queue' = queue
    /\ exit' = AfterTimeout(fields).exit
    /\ running' = AfterTimeout(fields).running
    /\ timer' = AfterTimeout(fields).timer
    /\ outcome' = res
    /\ handled' = NoEvent
    /\ UNCHANGED << accum, real, toggles, ticks, timers_result, status >>
    /\ pc' = "loop"

\* an iteration of handle_events whose poll or read fails: the ? returns at once
Failed(res) ==
    /\ UNCHANGED << exit, running, timer, queue, accum, real, toggles, ticks >>
    /\ outcome' = res
    /\ handled' = NoEvent
    /\ ReturnFromRun(res)

\* SWAPPED: `while event::poll(..)?` in place of `if`: every waiting event is
\* read and matched in the one iteration
RECURSIVE MatchAll(_, _)
MatchAll(s, q) == IF q = << >> THEN s ELSE MatchAll(MatchEvent(s, Head(q)), Tail(q))

handle_events_Drain ==
    /\ pc = "events"
    /\ polls' = polls + 1
    /\ pre' = fields
    /\ preLen' = Len(queue)
    /\ \/ Failed("Err_poll")
       \/ /\ queue # << >>
          /\ \/ Failed("Err_read")
             \/ /\ queue' = << >>
                /\ Handled(Advance(MatchAll(fields, queue)), Head(queue), "event", 0)
       \/ /\ queue = << >>
          /\ \E e \in InputEvents :
                \/ Failed("Err_read")
                \/ /\ queue' = queue
                   /\ Handled(AfterEvent(fields, e), e, "event", EarlyWait)
       \/ /\ queue = << >>
          /\ queue' = queue
          /\ Handled(AfterTimeout(fields), NoEvent, "timeout", frame_rate.nanos)
    /\ UNCHANGED << acquired, restoreCalls, draws, shown >>

\* self.handle_events()?
handle_events ==
    /\ pc = "events"
    /\ polls' = polls + 1
    /\ pre' = fields
    /\ preLen' = Len(queue)
    /\ \/ Failed("Err_poll")
       \/ /\ queue # << >>                   \* an event is waiting: Ok(true) at once
          /\ \/ Failed("Err_read")
             \/ /\ queue' = Tail(queue)
                /\ Handled(AfterEvent(fields, Head(queue)), Head(queue), "event", 0)
       \/ /\ queue = << >>                   \* an event arrives during the wait
          /\ \E e \in InputEvents :
                \/ Failed("Err_read")
                \/ /\ queue' = queue
                   /\ Handled(AfterEvent(fields, e), e, "event", EarlyWait)
       \/ /\ queue = << >>                   \* the budget expires: Ok(false)
          /\ queue' = queue
          /\ Handled(AfterTimeout(fields), NoEvent, "timeout", frame_rate.nanos)
    /\ UNCHANGED << acquired, restoreCalls, draws, shown >>

\* tui::restore()?;  timers_result
tui_restore ==
    /\ pc = "restore"
    /\ restoreCalls' = restoreCalls + 1
    /\ pc' = "done"
    /\ \/ status' = timers_result
       \/ status' = "Err_restore"
    /\ UNCHANGED << exit, running, timer, queue, acquired, draws, polls,
                    timers_result, pre, outcome, handled, accum, real,
                    shown, preLen, toggles, ticks >>

\* the terminal queues an event while the program runs
Arrive ==
    /\ pc \in {"loop", "draw", "events"}
    /\ Len(queue) < MaxQueue
    /\ \E e \in InputEvents : queue' = Append(queue, e)
    /\ UNCHANGED << pc, exit, running, timer, acquired, restoreCalls, draws, polls,
                    timers_result, status, pre, outcome, handled, accum, real,
                    shown, preLen, toggles, ticks >>

Next ==
    \/ tui_init
    \/ run_while
    \/ draw
    \/ handle_events
    \/ tui_restore
    \/ Arrive

Spec == Init /\ [][Next]_vars

----------------------------------------------------------------------------
\* The steps of one iteration taken alone, from any fields and any event: the
\* match on the event read, then the advance, then the text of the next frame.
\* pc goes "read", "matched", "advanced", "rendered".

SecsInputs  == {0, 59, 3599, 3723, 359999, 360000}
NanosInputs == {0, 16666667, 45000000, 999999999}

InitPure ==
    /\ pc = "read"
    /\ exit \in BOOLEAN
    /\ running \in BOOLEAN
    /\ timer \in {Duration(s, n) : s \in SecsInputs, n \in NanosInputs}
    /\ handled \in Event
    /\ pre = fields
    /\ outcome = "event"
    /\ queue = << >>
    /\ acquired = TRUE
    /\ restoreCalls = 0
    /\ draws = 0
    /\ polls = 0
    /\ timers_result = "none"
    /\ status = "none"
    /\ accum = 0
    /\ real = 0
    /\ shown = << >>
    /\ preLen = 0
    /\ toggles = 0
    /\ ticks = 0

\* match event::read()? { ... }
match_step ==
    /\ pc = "read"
    /\ pc' = "matched"
    /\ exit' = MatchEvent(fields, handled).exit
    /\ running' = MatchEvent(fields, handled).running
    /\ timer' = MatchEvent(fields, handled).timer
    /\ UNCHANGED << queue, acquired, restoreCalls, draws, polls, timers_result, status,
                    pre, outcome, handled, accum, real, shown, preLen, toggles, ticks >>

\* if self.running { self.timer += frame_rate; }
advance_step ==
    /\ pc = "matched"
    /\ pc' = "advanced"
    /\ exit' = Advance(fields).exit
    /\ running' = Advance(fields).running
    /\ timer' = Advance(fields).timer
    /\ UNCHANGED << queue, acquired, restoreCalls, draws, polls, timers_result, status,
                    pre, outcome, handled, accum, real, shown, preLen, toggles, ticks >>

\* the timer text of StatefulWidget::render
render_step ==
    /\ pc = "advanced"
    /\ pc' = "rendered"
    /\ shown' = TimerText(timer)
    /\ UNCHANGED << exit, running, timer, queue, acquired, restoreCalls, draws, polls,
                    timers_result, status, pre, outcome, handled, accum, real,
                    preLen, toggles, ticks >>

NextPure ==
    \/ match_step
    \/ advance_step
    \/ render_step

SpecPure == InitPure /\ [][NextPure]_vars

\* The loop under the scheduling of a single thread that keeps running: a
\* step that can be taken is taken (draw and the bounded poll return).
FairSpec ==
    /\ Spec
    /\ WF_vars(run_while)
    /\ WF_vars(draw)
    /\ WF_vars(handle_events)
    /\ WF_vars(tui_restore)

----------------------------------------------------------------------------
\* Properties.  pre, outcome and handled describe the latest handle_events:
\* the fields it started from, how it ended and the event it read.

\* a <= b on durations (Duration's Ord)
DurationLE(a, b) ==
    \/ a.secs < b.secs
    \/ a.secs = b.secs /\ a.nanos <= b.nanos

\* C1: once exit is true no field changes any more; in the iteration whose
\* Escape press sets exit, and afterwards, elapsed is not advanced, running is
\* not toggled and elapsed is not reset, whether or not the stopwatch runs.
C1_ExitFreezesFields ==
    exit => (timer = pre.timer /\ running = pre.running)

\* C2: the event is handled before time is accumulated and accumulation uses
\* the flag as the event left it: an iteration whose Space press pauses a
\* running stopwatch adds nothing to elapsed, and an iteration adds to elapsed
\* only when running is true after the event.
C2_PauseBeforeAdvance ==
    /\ (outcome = "event" /\ handled = SpacePress /\ pre.running)
          => (~running /\ timer = pre.timer)
    /\ (outcome \in {"event", "timeout"} /\ ~running /\ handled # RPress)
          => timer = pre.timer

C2_Witness ==
    /\ pc = "loop"
    /\ outcome = "event" /\ handled = SpacePress
    /\ pre.running /\ ~running
    /\ pre.timer # DurationZero

\* C3, as claimed: an iteration whose Space press starts a paused stopwatch
\* leaves elapsed as it was at the start of the iteration.
C3_ResumeNotCounted ==
    (outcome = "event" /\ handled = SpacePress /\ ~pre.running)
        => timer = pre.timer

\* C3, amended: an iteration whose Space press starts a paused stopwatch counts
\* its frame budget: elapsed at its end is elapsed at its start plus frame_rate.
C3_ResumeCounted ==
    (outcome = "event" /\ handled = SpacePress /\ ~pre.running)
        => (running /\ timer = DurationAdd(pre.timer, frame_rate))

C3_Witness ==
    /\ pc = "loop"
    /\ outcome = "event" /\ handled = SpacePress
    /\ ~pre.running /\ running
    /\ pre.timer # DurationZero

\* C4: elapsed changes in two ways only: an iteration that ends with running
\* true adds exactly frame_rate, and an 'r' press sets it to zero first; without
\* an 'r' press it never decreases, and it is unchanged by an iteration that
\* ends paused and handles no 'r' press.
C4_ElapsedChanges ==
    LET reset == outcome = "event" /\ handled = RPress
        base  == IF reset THEN DurationZero ELSE pre.timer
        done  == outcome \in {"event", "timeout"}
    IN  /\ timer = IF done /\ running THEN DurationAdd(base, frame_rate) ELSE base
        /\ ~reset => DurationLE(pre.timer, timer)
        /\ (~reset /\ ~running) => timer = pre.timer

C4_Witness ==
    /\ pc = "loop"
    /\ outcome = "event" /\ handled = RPress
    /\ ~running
    /\ DurationLE(DurationAdd(frame_rate, frame_rate), pre.timer)
    /\ timer = DurationZero

\* C5: the loop ends as soon as exit is true: after the iteration that handled
\* the Escape press there is no further draw and no further poll, and
\* Timers::run returns Ok.
C5_ExitEndsLoop ==
    /\ [](exit => /\ pc \in {"loop", "restore", "done"}
                  /\ pc # "loop" => timers_result = "Ok")
    /\ [][exit => (draws' = draws /\ polls' = polls)]_vars

C5_Witness ==
    /\ exit
    /\ pc = "restore"
    /\ timers_result = "Ok"
    /\ draws = polls /\ draws >= 2

\* C6: exit is false at creation, becomes true only in a handle_events that
\* reads a press of Escape without modifiers, and is never set back to false.
C6_ExitOneWay ==
    /\ ~exit
    /\ [][exit' # exit =>
            /\ ~exit /\ exit'
            /\ pc = "events"
            /\ outcome' = "event" /\ handled' = EscPress]_vars

C6_Witness ==
    /\ exit
    /\ handled = EscPress
    /\ ~pre.exit
    /\ polls >= 2

\* C7: over a stretch of consecutive running iterations without a reset, the
\* elapsed time added and the real time that passed differ by at most one
\* frame budget, also when polls return early because an event arrived.
C7_TracksWallClock ==
    /\ accum - real <= frame_rate.nanos
    /\ real - accum <= frame_rate.nanos

\* C8: after tui::init succeeded, tui::restore is called exactly once on every
\* way out of main, whether Timers::run returned Ok or an error; it is not
\* called when the terminal was not acquired.
C8_RestoreOnce ==
    /\ restoreCalls <= 1
    /\ ~acquired => restoreCalls = 0
    /\ (acquired /\ pc = "done") => restoreCalls = 1
    /\ pc # "done" => restoreCalls = 0

C8_Witness ==
    /\ pc = "done"
    /\ acquired
    /\ timers_result \in Errors
    /\ restoreCalls = 1

\* C9: a failed draw, poll or read ends the loop at once: Timers::run returns
\* that error from the failing iteration, nothing is drawn or polled
\* afterwards, and an iteration whose poll or read failed leaves exit, running
\* and elapsed as they were.
C9_FailureFatal ==
    /\ [](/\ timers_result \in Errors => pc \in {"restore", "done"}
          /\ timers_result = "Err_draw" => polls = draws - 1
          /\ outcome \in {"Err_poll", "Err_read"}
                => (timers_result = outcome /\ fields = pre /\ polls = draws))
    /\ [][(timers_result \in Errors) =>
            (draws' = draws /\ polls' = polls /\ fields' = fields)]_vars

C9_Witness ==
    /\ pc = "restore"
    /\ timers_result = "Err_read"
    /\ running
    /\ timer # DurationZero

\* C10: main returns what the loop returned: success after an Escape, and the
\* loop's own error after a failed draw, poll or read, whatever tui::restore
\* returned.
C10_StatusIsLoopOutcome ==
    (pc = "done" /\ acquired) => status = timers_result

\* C11: only an unmodified key press of Escape, Space or 'r' applies a
\* transition (exit, toggle, reset); any other event (a release or repeat, a
\* mapped key with a modifier, an unmapped key, a non-key event) leaves exit
\* and running as they were and does not reset elapsed.
C11_MappingClosed ==
    LET press == handled.type = "Key" /\ handled.kind = "Press" /\ handled.mods = "NONE"
    IN  pc # "read" =>
          /\ exit = (pre.exit \/ (press /\ handled.code = "Esc"))
          /\ running = IF press /\ handled.code = "Space" THEN ~pre.running ELSE pre.running
          /\ pc = "matched" =>
                timer = IF press /\ handled.code = "r" THEN DurationZero ELSE pre.timer
          /\ handled \notin {EscPress, SpacePress, RPress} =>
                /\ exit = pre.exit
                /\ running = pre.running
                /\ DurationLE(pre.timer, timer)

C11_Witness ==
    /\ pc = "advanced"
    /\ handled = Key("Repeat", "r", "NONE")
    /\ running
    /\ pre.timer # DurationZero
    /\ timer = DurationAdd(pre.timer, frame_rate)

\* C13: the match on an 'r' press sets elapsed to zero, whatever elapsed was
\* and whether or not the stopwatch runs, and leaves running and exit alone.
C13_ResetZeroes ==
    (pc = "matched" /\ handled = RPress)
        => (timer = DurationZero /\ running = pre.running /\ exit = pre.exit)

C13_Witness ==
    /\ pc = "matched"
    /\ handled = RPress
    /\ pre.running /\ running
    /\ pre.timer = Duration(3723, 45000000)
    /\ timer = DurationZero

\* the number a text of digits stands for
DigitVal(c) == CHOOSE i \in 0..9 : DigitChar[i + 1] = c

RECURSIVE TextValue(_)
TextValue(txt) ==
    IF txt = << >>
    THEN 0
    ELSE TextValue(SubSeq(txt, 1, Len(txt) - 1)) * 10 + DigitVal(txt[Len(txt)])

IsDigits(txt) == \A i \in 1..Len(txt) : \E j \in 1..10 : DigitChar[j] = txt[i]

\* txt reads H..H:MM:SS.mmm for the duration d, with hw digits of hours
ReadsAs(txt, d, hw) ==
    /\ Len(txt) = hw + 10
    /\ txt[hw + 1] = ":" /\ txt[hw + 4] = ":" /\ txt[hw + 7] = "."
    /\ LET hh == SubSeq(txt, 1, hw)
           mm == SubSeq(txt, hw + 2, hw + 3)
           ss == SubSeq(txt, hw + 5, hw + 6)
           ms == SubSeq(txt, hw + 8, hw + 10)
       IN  /\ IsDigits(hh) /\ IsDigits(mm) /\ IsDigits(ss) /\ IsDigits(ms)
           /\ TextValue(hh) = d.secs \div 3600
           /\ TextValue(mm) = (d.secs \div 60) % 60 /\ TextValue(mm) <= 59
           /\ TextValue(ss) = d.secs % 60 /\ TextValue(ss) <= 59
           /\ TextValue(ms) = d.nanos \div 1000000 /\ TextValue(ms) <= 999

\* C18, as claimed: for every elapsed value the text is HH:MM:SS.mmm with
\* exactly two digits of hours, two of minutes, two of seconds and three of
\* milliseconds.
C18_TwoDigitHours ==
    pc = "rendered" => ReadsAs(shown, timer, 2)

\* C18, amended: the text is H..H:MM:SS.mmm, zero-padded, with two digits of
\* minutes and seconds, three of milliseconds and at least two of hours:
\* exactly two below 100 hours, and as many as the number has from 100 hours
\* on; 3723.045 s is shown as 01:02:03.045.
C18_TimerText ==
    pc = "rendered" =>
        /\ \E hw \in 2..6 :
              /\ ReadsAs(shown, timer, hw)
              /\ hw > 2 => shown[1] # "0"
              /\ timer.secs < 360000 => hw = 2
        /\ timer = Duration(3723, 45000000) =>
              shown = << "0", "1", ":", "0", "2", ":", "0", "3", ".", "0", "4", "5" >>

C18_Witness ==
    /\ pc = "rendered"
    /\ timer = Duration(3723, 45000000)
    /\ shown = << "0", "1", ":", "0", "2", ":", "0", "3", ".", "0", "4", "5" >>

\* C12: an iteration reads at most one event, the oldest one waiting, leaves
\* the others queued in their order for later iterations, and applies at most
\* one of the three transitions.
C12_OneEventPerIteration ==
    /\ [](polls > 0 => Len(queue) >= preLen - 1)
    /\ [][polls' = polls + 1 =>
            /\ (queue # << >> /\ outcome' = "event")
                  => (handled' = Head(queue) /\ queue' = Tail(queue))
            /\ outcome' # "event" => queue' = queue
            /\ ~(exit' # exit /\ running' # running)
            /\ (exit' # exit \/ running' # running) => DurationLE(timer, timer')]_vars

C12_Witness ==
    /\ pc = "loop"
    /\ preLen >= 2
    /\ outcome = "event" /\ handled = SpacePress
    /\ Len(queue) = preLen - 1
    /\ Head(queue) = SpacePress
    /\ running

\* C14: a handled Space press flips running and changes neither exit nor, by
\* itself, elapsed (which differs from its value at the start of the iteration
\* only by that iteration's advance); after an even number of handled Space
\* presses running has its initial value, after an odd number the opposite.
C14_ToggleParity ==
    /\ running = (toggles % 2 = 1)
    /\ (outcome = "event" /\ handled = SpacePress) =>
          /\ running = ~pre.running
          /\ exit = pre.exit
          /\ timer = IF running THEN DurationAdd(pre.timer, frame_rate) ELSE pre.timer

C14_Witness ==
    /\ pc = "loop"
    /\ toggles = 2
    /\ ~running
    /\ outcome = "event" /\ handled = SpacePress
    /\ timer # DurationZero

\* C15: once an unmodified Escape press is the next event to be read, the loop
\* ends: unless a draw, poll or read fails, exit becomes true and Timers::run
\* returns Ok.
C15_EscapeTerminates ==
    (pc \in {"draw", "events"} /\ queue # << >> /\ Head(queue) = EscPress)
        ~> (timers_result \in Errors \/ (exit /\ timers_result = "Ok"))

C15_Witness ==
    /\ pc = "done"
    /\ status = "Ok"
    /\ handled = EscPress
    /\ preLen >= 1
    /\ exit

\* n times the duration d, as one advance of n * d
DurationMul(d, n) ==
    Duration(d.secs * n + ((d.nanos * n) \div 1000000000), (d.nanos * n) % 1000000000)

\* C16: elapsed is frame_rate times the number of iterations, since the
\* latest handled reset or since the start, that completed with running true,
\* whether or not an event arrived in them.
C16_ElapsedIsTicks ==
    timer = DurationMul(frame_rate, ticks)

C16_Witness ==
    /\ pc = "loop"
    /\ ticks >= 3
    /\ outcome = "timeout"
    /\ preLen = 0
    /\ toggles = 1

\* C17: at creation running is false, exit is false and elapsed is zero, and
\* until the first unmodified Space press is handled elapsed stays zero and
\* running stays false.
C17_IdleUntilStarted ==
    /\ polls = 0 => (~exit /\ ~running /\ timer = DurationZero)
    /\ toggles = 0 => (~running /\ timer = DurationZero)

C17_Witness ==
    /\ pc = "loop"
    /\ toggles = 0
    /\ polls >= 3
    /\ outcome = "event" /\ handled = Key("Press", "a", "NONE")
    /\ ~exit

\* C19: an iteration draws before it polls, once: the first frame shows the
\* initial state before any event is read, each frame shows the state the
\* previous iteration left, and the state left by the iteration that handled
\* Escape is never drawn.
C19_RenderBeforePoll ==
    /\ draws \in {polls, polls + 1}
    /\ pc = "events" => (draws = polls + 1 /\ shown = TimerText(timer))
    /\ (pc = "events" /\ draws = 1) =>
          (handled = NoEvent /\ ~running /\ shown = TimerText(DurationZero))
    /\ (polls > 0 /\ pc # "events") => shown = TimerText(pre.timer)
    /\ exit => (draws = polls /\ (timer # pre.timer => shown # TimerText(timer)))

C19_Witness ==
    /\ pc = "done"
    /\ exit
    /\ running
    /\ draws = polls /\ draws >= 2
    /\ shown = TimerText(pre.timer)
    /\ shown # TimerText(timer)

\* C20: an iteration that handles an 'r' press ends with elapsed at frame_rate
\* when the stopwatch runs and at zero when it does not; the frame drawn after
\* the reset of a running stopwatch does not show zero.
C20_ResetThenAdvance ==
    /\ (outcome = "event" /\ handled = RPress)
          => timer = IF running THEN frame_rate ELSE DurationZero
    /\ (pc = "events" /\ outcome = "event" /\ handled = RPress /\ running)
          => (shown = TimerText(frame_rate) /\ shown # TimerText(DurationZero))

C20_Witness ==
    /\ pc = "events"
    /\ outcome = "event" /\ handled = RPress
    /\ running
    /\ pre.timer # DurationZero
    /\ shown = << "0", "0", ":", "0", "0", ":", "0", "0", ".", "0", "1", "6" >>

====
